---- MODULE Spec2Model ----
(***************************************************************************)
(* LBO Deal Studio (src/app.py): the IRR solver calculate_irr, the cash    *)
(* flow projector run_lbo and the scenario loop that calls it.             *)
(*                                                                         *)
(* Numbers.  Python floats are modelled by the exact rational they stand   *)
(* for: a pair <<n, d>> with d > 0 in lowest terms.  Rounding of IEEE      *)
(* doubles is not modelled; an equality below is an equality of the exact  *)
(* values.  Division is partial, as in Python: the callers test the        *)
(* divisor and raise ZeroDivisionError.                                    *)
(***************************************************************************)
EXTENDS Integers, Sequences, FiniteSets, TLC

VARIABLES
    \* the sidebar widgets (src/app.py:93-128), read as globals by run_lbo
    inputs, scenario_inputs,
    \* the scenario loop (src/app.py:178-185)
    pc, si, results, tables, raised,
    \* the frame of the current (or last) run_lbo call (src/app.py:131-174)
    growth_rate, exit_multiple,
    fee, total_price, debt, equity, debt_remaining, cash_flows, table, year,
    exit_value, proceeds, irr, moic,
    \* the frame of a calculate_irr call (src/app.py:46-53)
    irr_cash_flows, iterations, rate, irr_n, irr_pc, irr_raised

loopVars  == <<pc, si, results, tables, raised>>
frameVars == <<growth_rate, exit_multiple, fee, total_price, debt, equity,
               debt_remaining, cash_flows, table, year,
               exit_value, proceeds, irr, moic>>
irrVars   == <<irr_cash_flows, iterations, rate, irr_n, irr_pc, irr_raised>>
vars      == <<inputs, scenario_inputs, loopVars, frameVars, irrVars>>

----------------------------------------------------------------------------
\* Exact rational arithmetic standing for Python's float operators.

Abs(n) == IF n < 0 THEN -n ELSE n

RECURSIVE Gcd(_, _)
Gcd(a, b) == IF b = 0 THEN a ELSE Gcd(b, a % b)

\* n/d in lowest terms with a positive denominator (d # 0)
Norm(n, d) ==
    LET g == Gcd(Abs(n), Abs(d))
        s == IF d < 0 THEN -1 ELSE 1
    IN  <<s * (n \div g), s * (d \div g)>>

R(n)       == <<n, 1>>
Frac(n, d) == Norm(n, d)
Zero       == R(0)
One        == R(1)

\* over the least common denominator, so that the products stay small
RAdd(a, b) ==
    LET g == Gcd(a[2], b[2])
    IN  Norm(a[1] * (b[2] \div g) + b[1] * (a[2] \div g), (a[2] \div g) * b[2])
RNeg(a)    == <<-a[1], a[2]>>
RSub(a, b) == RAdd(a, RNeg(b))
\* cross-reduced first, so that the products stay small
RMul(a, b) ==
    LET x == Norm(a[1], b[2])
        y == Norm(b[1], a[2])
    IN  Norm(x[1] * y[1], x[2] * y[2])
\* a / b for b # 0
RDiv(a, b) == RMul(a, Norm(b[2], b[1]))
RLt(a, b)  == LET g == Gcd(a[2], b[2]) IN a[1] * (b[2] \div g) < b[1] * (a[2] \div g)
RLe(a, b)  == LET g == Gcd(a[2], b[2]) IN a[1] * (b[2] \div g) <= b[1] * (a[2] \div g)
\* Python's max(a, b)
RMax(a, b) == IF RLt(a, b) THEN b ELSE a

\* a ** k for an int k >= 0 (0 ** 0 is 1, as in Python)
RECURSIVE RPow(_, _)
RPow(a, k) == IF k = 0 THEN One ELSE RMul(a, RPow(a, k - 1))

\* sum of a sequence of rationals
RECURSIVE RSum(_)
RSum(s) == IF s = <<>> THEN Zero ELSE RAdd(Head(s), RSum(Tail(s)))

\* what a name holds before it is assigned
None == "None"

\* an exception is the type and the source line that raises it
NoError == [type |-> "none", line |-> 0]
Exc(t, l) == [type |-> t, line |-> l]

----------------------------------------------------------------------------
\* calculate_irr (src/app.py:46-53).  Python's list index i is i + 1 here.

\* the default of the parameter iterations
DefaultIterations == 100

\* rate = 0.1
StartRate == Frac(1, 10)

\* denominator = [(1 + rate) ** i for i in range(len(cash_flows))]
Denominator(cfs, r) == [j \in 1..Len(cfs) |-> RPow(RAdd(One, r), j - 1)]

\* cf / d raises when d = 0.0: some (1 + rate) ** i with i >= 1 is 0
ValueRaises(cfs, r) == Len(cfs) >= 2 /\ RAdd(One, r) = Zero

\* value = sum([cf / d for cf, d in zip(cash_flows, denominator)])
\* variant: the cash flows summed without discounting
ValueUndiscounted(cfs, r) == RSum(cfs)
Value(cfs, r) ==
    LET den == Denominator(cfs, r)
    IN  RSum([j \in 1..Len(cfs) |-> RDiv(cfs[j], den[j])])

\* -i * cf / ((1 + rate) ** (i + 1)) raises when 1 + rate = 0
DerivativeRaises(cfs, r) == Len(cfs) >= 1 /\ RAdd(One, r) = Zero

\* derivative = sum([-i * cf / ((1 + rate) ** (i + 1)) for i, cf in enumerate(cash_flows)])
Derivative(cfs, r) ==
    RSum([j \in 1..Len(cfs) |->
            RDiv(RMul(R(-(j - 1)), cfs[j]), RPow(RAdd(One, r), j))])

\* the exception one pass of the loop body raises at rate r, or NoError
StepRaises(cfs, r) ==
    IF ValueRaises(cfs, r) THEN Exc("ZeroDivisionError", 50)
    ELSE IF DerivativeRaises(cfs, r) THEN Exc("ZeroDivisionError", 51)
    ELSE IF Derivative(cfs, r) = Zero THEN Exc("ZeroDivisionError", 52)
    ELSE NoError

\* rate -= value / derivative
NewtonStep(cfs, r) == RSub(r, RDiv(Value(cfs, r), Derivative(cfs, r)))

\* One pass of `for _ in range(iterations)`.
IrrIterate ==
    /\ irr_pc = "loop"
    /\ irr_n < iterations
    /\ LET e == StepRaises(irr_cash_flows, rate)
       IN  IF e # NoError
           THEN /\ irr_raised' = e
                /\ irr_pc' = "raised"
                /\ UNCHANGED <<rate, irr_n>>
           ELSE /\ rate' = NewtonStep(irr_cash_flows, rate)
                /\ irr_n' = irr_n + 1
                /\ UNCHANGED <<irr_pc, irr_raised>>
    /\ UNCHANGED <<irr_cash_flows, iterations>>
    /\ UNCHANGED <<inputs, scenario_inputs, loopVars, frameVars>>

\* return rate
IrrReturn ==
    /\ irr_pc = "loop"
    /\ irr_n = iterations
    /\ irr_pc' = "returned"
    /\ UNCHANGED <<irr_cash_flows, iterations, rate, irr_n, irr_raised>>
    /\ UNCHANGED <<inputs, scenario_inputs, loopVars, frameVars>>

----------------------------------------------------------------------------
\* The widgets' values the model draws from.  Every one is a value the
\* widget accepts: number_input has no minimum, the sliders have their range.

MaxHoldingPeriod == 3
MaxAmortYears    == 3

PurchasePrices   == {R(-100), R(0), R(100)}
FeePcts          == {Zero, Frac(1, 10)}
EntryEbitdas     == {R(21)}
HoldingPeriods   == 1..MaxHoldingPeriod
DebtRatios       == {0, 50, 100}
InterestRates    == {Frac(1, 10)}
AmortYears       == 0..MaxAmortYears
TaxRates         == {Frac(1, 4)}
EbitdaMargins    == {Zero, Frac(1, 2)}
CapexPcts        == {Zero, Frac(1, 4)}
DepreciationPcts == {Frac(1, 2)}
WcPcts           == {Zero}

\* (growth rate, exit multiple) of a scenario
ScenarioChoices ==
    { [growth_rate |-> Zero,        exit_multiple |-> R(5)],
      [growth_rate |-> Frac(1, 2),  exit_multiple |-> R(1)],
      [growth_rate |-> Frac(-1, 2), exit_multiple |-> R(6)] }

\* the keys of scenario_inputs in insertion order (src/app.py:115-128)
ScenarioNames == <<"Base Case", "Upside Case", "Downside Case">>

Inputs ==
    [ purchase_price      : PurchasePrices,
      transaction_fee_pct : FeePcts,
      entry_ebitda        : EntryEbitdas,
      holding_period      : HoldingPeriods,
      debt_ratio          : DebtRatios,
      interest_rate       : InterestRates,
      amort_years         : AmortYears,
      tax_rate            : TaxRates,
      ebitda_margin       : EbitdaMargins,
      capex_pct           : CapexPcts,
      depreciation_pct    : DepreciationPcts,
      wc_pct              : WcPcts ]

----------------------------------------------------------------------------
\* run_lbo (src/app.py:131-174)

\* fee = purchase_price * transaction_fee_pct
Fee(in) == RMul(in.purchase_price, in.transaction_fee_pct)

\* total_price = purchase_price + fee
TotalPrice(in) == RAdd(in.purchase_price, Fee(in))

\* debt = total_price * (debt_ratio / 100)
Debt(in) == RMul(TotalPrice(in), Frac(in.debt_ratio, 100))

\* equity = total_price - debt
\* variant: purchase_price - debt, the fee left out
EquityBeforeFee(in) == RSub(in.purchase_price, Debt(in))
Equity(in) == RSub(TotalPrice(in), Debt(in))

\* ebitda = entry_ebitda * ((1 + growth_rate) ** (year - 1))
Ebitda(in, g, y) == RMul(in.entry_ebitda, RPow(RAdd(One, g), y - 1))

\* the condition of `debt / amort_years if year <= amort_years else 0`
\* variant: debt / amort_years in every year
AmortizesAlways(y, a) == TRUE
Amortizes(y, a) == y <= a

\* the division of that expression is evaluated with amort_years = 0
AmortRaises(y, a) == Amortizes(y, a) /\ a = 0

\* amort = debt / amort_years if year <= amort_years else 0
\* variant: year < amort_years
AmortOffByOne(d, y, a) == IF y < a THEN RDiv(d, R(a)) ELSE Zero
Amort(d, y, a) == IF Amortizes(y, a) THEN RDiv(d, R(a)) ELSE Zero

\* debt_remaining = max(debt_remaining - amort, 0)
\* variant: the amortization added to the balance
DebtAfterAdding(dr, am) == RMax(RAdd(dr, am), Zero)
DebtAfter(dr, am) == RMax(RSub(dr, am), Zero)

\* tax = max(taxable_income, 0) * tax_rate
\* variant: taxable_income * tax_rate, a credit in loss years
TaxWithCredit(ti, tr) == RMul(ti, tr)
Tax(ti, tr) == RMul(RMax(ti, Zero), tr)

\* `for year in range(1, holding_period + 1)` takes the value y
\* variant: range(1, holding_period)
InRangeShort(y, hp) == y < hp
InRange(y, hp) == y < hp + 1

\* table = []
\* variant: table kept from the call before
TableKept == IF si = 0 THEN <<>> ELSE table
EmptyTable == <<>>

\* proceeds = exit_value - debt_remaining
\* variant: the exit value with no debt repaid
ProceedsGross(ev, dr) == ev
Proceeds(ev, dr) == RSub(ev, dr)

\* The record of one year (src/app.py:141-165), from the balance dr before it.
YearRecord(in, g, d, dr, y) ==
    LET ebitda         == Ebitda(in, g, y)
        revenue        == RDiv(ebitda, in.ebitda_margin)
        capex          == RMul(revenue, in.capex_pct)
        depreciation   == RMul(capex, in.depreciation_pct)
        wc_change      == RMul(revenue, in.wc_pct)
        interest       == RMul(dr, in.interest_rate)
        taxable_income == RSub(RSub(ebitda, interest), depreciation)
        tax            == Tax(taxable_income, in.tax_rate)
        net_income     == RSub(taxable_income, tax)
        fcf            == RSub(RSub(RAdd(net_income, depreciation), capex), wc_change)
        amort          == Amort(d, y, in.amort_years)
    IN  [ Year          |-> y,
          EBITDA        |-> ebitda,
          Revenue       |-> revenue,
          CapEx         |-> capex,
          Depreciation  |-> depreciation,
          Interest      |-> interest,
          Tax           |-> tax,
          FCF           |-> fcf,
          DebtRemaining |-> DebtAfter(dr, amort) ]

\* The call run_lbo(**params) of the loop's next scenario: lines 132-138.
RunLboStart ==
    /\ pc = "loop"
    /\ si < Len(ScenarioNames)
    /\ si' = si + 1
    /\ growth_rate' = scenario_inputs[si + 1].growth_rate
    /\ exit_multiple' = scenario_inputs[si + 1].exit_multiple
    /\ fee' = Fee(inputs)
    /\ total_price' = TotalPrice(inputs)
    /\ debt' = Debt(inputs)
    /\ equity' = Equity(inputs)
    /\ debt_remaining' = Debt(inputs)
    /\ cash_flows' = <<RNeg(Equity(inputs))>>
    /\ table' = EmptyTable
    /\ year' = 1
    /\ exit_value' = None /\ proceeds' = None /\ irr' = None /\ moic' = None
    /\ pc' = "year"
    /\ UNCHANGED <<inputs, scenario_inputs, results, tables, raised, irrVars>>

\* One pass of `for year in range(1, holding_period + 1)`: lines 141-165.
RunLboYear ==
    /\ pc = "year"
    /\ InRange(year, inputs.holding_period)
    /\ IF inputs.ebitda_margin = Zero
       THEN /\ raised' = Exc("ZeroDivisionError", 142)
            /\ pc' = "raised"
            /\ UNCHANGED <<debt_remaining, cash_flows, table, year>>
       ELSE IF AmortRaises(year, inputs.amort_years)
       THEN /\ raised' = Exc("ZeroDivisionError", 151)
            /\ pc' = "raised"
            /\ UNCHANGED <<debt_remaining, cash_flows, table, year>>
       ELSE LET rec == YearRecord(inputs, growth_rate, debt, debt_remaining, year)
            IN  /\ debt_remaining' = rec.DebtRemaining
                /\ cash_flows' = Append(cash_flows, rec.FCF)
                /\ table' = Append(table, rec)
                /\ year' = year + 1
                /\ UNCHANGED <<pc, raised>>
    /\ UNCHANGED <<growth_rate, exit_multiple, fee, total_price, debt, equity,
                   exit_value, proceeds, irr, moic>>
    /\ UNCHANGED <<inputs, scenario_inputs, si, results, tables, irrVars>>

\* cash_flows[-1] += proceeds
AddToLast(cfs, x) == [cfs EXCEPT ![Len(cfs)] = RAdd(cfs[Len(cfs)], x)]

\* How the call calculate_irr(cash_flows) of line 172 can end.  Its first pass
\* is computed: when that raises, the call raises.  The later passes (100 in
\* all) leave the range of the model's integers, so their outcome is any of
\* those a pass can have: none, a zero divisor, a float power out of range.
IrrOutcomes(cfs) ==
    LET e == StepRaises(cfs, StartRate)
    IN  IF e # NoError
        THEN {e}
        ELSE {NoError, Exc("ZeroDivisionError", 52), Exc("OverflowError", 51)}

\* irr = calculate_irr(cash_flows) * 100, kept as the application it is:
\* a function of cash_flows alone
IrrPercent(cfs) == [calculate_irr |-> cfs, iterations |-> DefaultIterations, times |-> 100]

\* moic = proceeds / equity raises when equity = 0
\* variant: a division that yields inf or nan instead of raising
MoicNeverRaises(eq) == FALSE
MoicRaises(eq) == eq = Zero

\* moic = proceeds / equity
Moic(pr, eq) == RDiv(pr, eq)

\* After the loop: lines 167-174, to the return or to the exception.
RunLboExit ==
    /\ pc = "year"
    /\ ~InRange(year, inputs.holding_period)
    /\ LET exit_ebitda == RMul(inputs.entry_ebitda,
                               RPow(RAdd(One, growth_rate), inputs.holding_period))
           ev  == RMul(exit_ebitda, exit_multiple)
           pr  == Proceeds(ev, debt_remaining)
           cfs == AddToLast(cash_flows, pr)
       IN  /\ exit_value' = ev
           /\ proceeds' = pr
           /\ cash_flows' = cfs
           /\ \E o \in IrrOutcomes(cfs) :
                IF o # NoError
                THEN /\ raised' = o
                     /\ pc' = "raised"
                     /\ UNCHANGED <<irr, moic>>
                ELSE IF MoicRaises(equity)
                THEN /\ irr' = IrrPercent(cfs)
                     /\ raised' = Exc("ZeroDivisionError", 173)
                     /\ pc' = "raised"
                     /\ UNCHANGED moic
                ELSE /\ irr' = IrrPercent(cfs)
                     /\ moic' = Moic(pr, equity)
                     /\ pc' = "returned"
                     /\ UNCHANGED raised
    /\ UNCHANGED <<growth_rate, exit_multiple, fee, total_price, debt, equity,
                   debt_remaining, table, year>>
    /\ UNCHANGED <<inputs, scenario_inputs, si, results, tables, irrVars>>

----------------------------------------------------------------------------
\* The scenario loop (src/app.py:178-185)

\* tables[scenario] = table
DictSet(d, k, v) == [x \in DOMAIN d \cup {k} |-> IF x = k THEN v ELSE d[x]]

\* The rest of the loop body after run_lbo returned: lines 181-183.
ScenarioAppend ==
    /\ pc = "returned"
    /\ results' = Append(results, [Scenario |-> ScenarioNames[si],
                                   IRR      |-> irr,
                                   MOIC     |-> moic])
    /\ tables' = DictSet(tables, ScenarioNames[si], table)
    /\ pc' = "loop"
    /\ UNCHANGED <<inputs, scenario_inputs, si, raised, frameVars, irrVars>>

\* scenario_inputs.items() is exhausted: line 185.
LoopDone ==
    /\ pc = "loop"
    /\ si = Len(ScenarioNames)
    /\ pc' = "done"
    /\ UNCHANGED <<inputs, scenario_inputs, si, results, tables, raised,
                   frameVars, irrVars>>

----------------------------------------------------------------------------
\* The specifications

FrameIdle ==
    /\ growth_rate = None /\ exit_multiple = None
    /\ fee = None /\ total_price = None /\ debt = None /\ equity = None
    /\ debt_remaining = None /\ cash_flows = None /\ table = None /\ year = None
    /\ exit_value = None /\ proceeds = None /\ irr = None /\ moic = None

IrrIdle ==
    /\ irr_cash_flows = None /\ iterations = None /\ rate = None
    /\ irr_n = 0 /\ irr_pc = "idle" /\ irr_raised = NoError

\* The script has read its widgets and stands before the scenario loop
\* (results = [], tables = {}).
Init ==
    /\ inputs \in Inputs
    /\ scenario_inputs \in [1..Len(ScenarioNames) -> ScenarioChoices]
    /\ pc = "loop" /\ si = 0
    /\ results = <<>> /\ tables = <<>> /\ raised = NoError
    /\ FrameIdle
    /\ IrrIdle

Next ==
    \/ RunLboStart
    \/ RunLboYear
    \/ RunLboExit
    \/ ScenarioAppend
    \/ LoopDone

Spec == Init /\ [][Next]_vars

\* Cash flows whose Newton iterates are exactly representable for all 100
\* passes: the start rate is a root, or the first pass raises.
SteadyFlows ==
    { <<R(-100), R(110)>>, <<R(-10), R(11)>>, <<R(100), R(-110)>>,
      <<R(-100), R(10), R(110)>>, <<R(-200), R(220)>>,
      <<>>, <<R(-100)>>, <<R(-100), R(0)>>, <<R(0), R(0), R(0)>> }

\* Cash flows whose rate moves; followed for a few passes only.
MovingFlows == { <<R(-100), R(120)>>, <<R(0), R(110)>>, <<R(0), R(0), R(121)>> }
FewIterations == {0, 1, 2}

\* A call calculate_irr(cash_flows, iterations) is entered: rate = 0.1.
InitIrr ==
    /\ \/ irr_cash_flows \in SteadyFlows /\ iterations \in FewIterations \cup {DefaultIterations}
       \/ irr_cash_flows \in MovingFlows /\ iterations \in FewIterations
    /\ rate = StartRate
    /\ irr_n = 0 /\ irr_pc = "loop" /\ irr_raised = NoError
    /\ inputs = None /\ scenario_inputs = None
    /\ pc = "idle" /\ si = 0
    /\ results = <<>> /\ tables = <<>> /\ raised = NoError
    /\ FrameIdle

NextIrr ==
    \/ IrrIterate
    \/ IrrReturn

SpecIrr == InitIrr /\ [][NextIrr]_vars

----------------------------------------------------------------------------
\* The properties

\* a run_lbo frame exists (a call has been entered)
Called == si > 0

\* the tables the program holds: the frame's and the stored ones
AllTables ==
    (IF Called THEN {table} ELSE {}) \cup {tables[n] : n \in DOMAIN tables}

\* the balance before year i of table t
BalanceBefore(t, i) == IF i = 1 THEN Debt(inputs) ELSE t[i - 1].DebtRemaining

\* C1: with purchase price >= 0, fee rate >= 0, debt ratio in 0..100 and
\* amortization years >= 1, Debt Remaining is never negative in a year record
\* and never rises from one record to the next, the first being at most the
\* initial debt.
C1_DebtNeverNegativeNonIncreasing ==
    ( /\ RLe(Zero, inputs.purchase_price)
      /\ RLe(Zero, inputs.transaction_fee_pct)
      /\ inputs.debt_ratio \in 0..100
      /\ inputs.amort_years >= 1 )
    => \A t \in AllTables : \A i \in 1..Len(t) :
          /\ RLe(Zero, t[i].DebtRemaining)
          /\ RLe(t[i].DebtRemaining, BalanceBefore(t, i))

C1_Witness ==
    /\ pc = "returned"
    /\ RLt(Zero, inputs.purchase_price)
    /\ inputs.amort_years >= 1
    /\ Len(table) >= 3
    /\ RLt(table[2].DebtRemaining, table[1].DebtRemaining)
    /\ RLt(table[1].DebtRemaining, debt)
    /\ table[3].DebtRemaining = table[2].DebtRemaining

\* C2: the table run_lbo returns has exactly holding_period year records and
\* the i-th (from 0) has Year = i + 1: the years 1..h in order, no gap, no repeat.
C2_YearsInOrder ==
    /\ \A t \in AllTables : \A i \in 1..Len(t) : t[i].Year = i
    /\ pc = "returned" => Len(table) = inputs.holding_period
    /\ \A n \in DOMAIN tables : Len(tables[n]) = inputs.holding_period

C2_Witness ==
    /\ pc = "done"
    /\ inputs.holding_period >= 3
    /\ \A n \in DOMAIN tables : tables[n][3].Year = 3

\* taxable_income of a year record: ebitda - interest - depreciation
TaxableIncome(r) == RSub(RSub(r.EBITDA, r.Interest), r.Depreciation)

\* C3: with a tax rate >= 0, Tax >= 0 in every year record: it is exactly 0
\* when taxable income is <= 0 (no credit) and taxable income times the tax
\* rate otherwise.
C3_TaxNeverNegative ==
    RLe(Zero, inputs.tax_rate)
    => \A t \in AllTables : \A i \in 1..Len(t) :
          /\ RLe(Zero, t[i].Tax)
          /\ RLe(TaxableIncome(t[i]), Zero) => t[i].Tax = Zero
          /\ RLt(Zero, TaxableIncome(t[i]))
                => t[i].Tax = RMul(TaxableIncome(t[i]), inputs.tax_rate)

C3_Witness ==
    /\ pc = "returned"
    /\ \E i, j \in 1..Len(table) :
          /\ RLt(TaxableIncome(table[i]), Zero) /\ table[i].Tax = Zero
          /\ RLt(Zero, TaxableIncome(table[j])) /\ RLt(Zero, table[j].Tax)

\* purchasePrice * (1 + transactionFeeRate)
PriceWithFee == RMul(inputs.purchase_price, RAdd(One, inputs.transaction_fee_pct))

\* C4: in every call, debt + equity = purchasePrice * (1 + transactionFeeRate),
\* and debt and equity are given by the shared inputs alone (debt_ratio percent
\* of that sum and the rest), whatever the scenario.
C4_CapitalStructureIdentity ==
    Called =>
       /\ RAdd(debt, equity) = PriceWithFee
       /\ RMul(R(100), debt) = RMul(R(inputs.debt_ratio), PriceWithFee)
       /\ RMul(R(100), equity) = RMul(R(100 - inputs.debt_ratio), PriceWithFee)

C4_Witness ==
    /\ Called
    /\ si = 3
    /\ scenario_inputs[3] # scenario_inputs[1]
    /\ RLt(Zero, inputs.transaction_fee_pct)
    /\ RLt(Zero, debt) /\ RLt(Zero, equity)

\* C5 as stated: with equity > 0 the returned moic is proceeds / equity, with
\* proceeds = exitValue - final debtRemaining, and it is > 1 whenever
\* exitValue exceeds both the debt and the purchase price.
C5_MoicAbovePurchasePrice ==
    (pc = "returned" /\ RLt(Zero, equity)) =>
       /\ proceeds = RSub(exit_value, debt_remaining)
       /\ moic = RDiv(RSub(exit_value, debt_remaining), equity)
       /\ (RLt(debt, exit_value) /\ RLt(inputs.purchase_price, exit_value))
             => RLt(One, moic)

\* C5 amended: with equity > 0 the returned moic is proceeds / equity, with
\* proceeds = exitValue - final debtRemaining, and it is > 1 whenever
\* exitValue exceeds the purchase price plus the transaction fee (debt + equity).
C5_MoicAboveTotalPrice ==
    (pc = "returned" /\ RLt(Zero, equity)) =>
       /\ proceeds = RSub(exit_value, debt_remaining)
       /\ moic = RDiv(RSub(exit_value, debt_remaining), equity)
       /\ RLt(PriceWithFee, exit_value) => RLt(One, moic)

C5_Witness ==
    /\ pc = "returned"
    /\ RLt(Zero, equity) /\ RLt(Zero, debt_remaining)
    /\ RLt(PriceWithFee, exit_value)
    /\ RLt(One, moic)

\* C6 as stated: with amortization years = 0 run_lbo ends in a division by
\* zero in its first year: no year record, no result.
C6_ZeroAmortRaises ==
    (Called /\ inputs.amort_years = 0) =>
       /\ Len(table) = 0
       /\ pc \notin {"returned", "done"}
       /\ results = <<>>
       /\ pc = "raised" => raised.type = "ZeroDivisionError"

\* C6 amended: with amortization years = 0 the division debt / amort_years is
\* never evaluated (year <= 0 is false for every year >= 1): no exception
\* comes from line 151, year records are produced, the amortization is 0 and,
\* for a debt >= 0, Debt Remaining equals the initial debt in every year record.
C6_ZeroAmortNeverAmortizes ==
    inputs.amort_years = 0 =>
       /\ raised.line # 151
       /\ pc = "returned" => Len(table) = inputs.holding_period
       /\ RLe(Zero, Debt(inputs)) =>
             \A t \in AllTables : \A i \in 1..Len(t) : t[i].DebtRemaining = Debt(inputs)

C6_Witness ==
    /\ pc = "returned"
    /\ inputs.amort_years = 0
    /\ Len(table) >= 2
    /\ RLt(Zero, debt)
    /\ debt_remaining = debt

\* the lines that can raise before the MOIC computation of line 173: the
\* revenue (142) and calculate_irr (46-53)
EarlierLines == {142} \cup 46..53

\* C7 as stated: with equity = 0 the call fails with a division by zero at
\* the MOIC computation and returns nothing; a moic that is returned
\* (equity > 0) is > 0.
C7_ReturnedMoicPositive ==
    /\ (Called /\ equity = Zero) =>
          /\ pc \notin {"returned", "done"} /\ results = <<>> /\ tables = <<>>
          /\ (pc = "raised" /\ raised.line \notin EarlierLines)
                => raised = Exc("ZeroDivisionError", 173)
    /\ (pc = "returned" /\ RLt(Zero, equity)) => RLt(Zero, moic)

\* C7 amended: with equity = 0 the call never returns a result: it fails with
\* a division by zero at the MOIC computation unless an earlier line (the
\* revenue, calculate_irr) has raised; a moic that is returned with
\* equity > 0 is > 0 exactly when exitValue exceeds the final debtRemaining,
\* and is <= 0 otherwise.
C7_ReturnedMoicSignOfProceeds ==
    /\ (Called /\ equity = Zero) =>
          /\ pc \notin {"returned", "done"} /\ results = <<>> /\ tables = <<>>
          /\ (pc = "raised" /\ raised.line \notin EarlierLines)
                => raised = Exc("ZeroDivisionError", 173)
    /\ pc = "returned" => equity # Zero
    /\ (pc = "returned" /\ RLt(Zero, equity))
          => (RLt(Zero, moic) <=> RLt(debt_remaining, exit_value))

C7_Witness ==
    /\ pc = "raised"
    /\ equity = Zero
    /\ inputs.debt_ratio = 100
    /\ RLt(Zero, inputs.purchase_price)
    /\ raised = Exc("ZeroDivisionError", 173)

\* the scenarios the loop has finished, in order
Finished == 1..Len(results)

C8_Rows ==
    /\ Len(results) = (IF pc \in {"loop", "done", "idle"} THEN si ELSE si - 1)
    /\ pc = "done" => Len(results) = Len(ScenarioNames)
    /\ \A i \in Finished : results[i].Scenario = ScenarioNames[i]
    /\ DOMAIN tables = {ScenarioNames[i] : i \in Finished}
    /\ \A i, j \in Finished :
          scenario_inputs[i] = scenario_inputs[j] =>
             /\ results[i].IRR = results[j].IRR
             /\ results[i].MOIC = results[j].MOIC
             /\ tables[ScenarioNames[i]] = tables[ScenarioNames[j]]

\* C8: the loop yields one summary row and one table per scenario, the rows
\* in the insertion order of scenario_inputs; a scenario's (irr, moic, table)
\* is that of any other position holding the same (growth rate, exit
\* multiple), whatever ran before it; and no step changes the shared inputs.
C8_ScenariosIndependent ==
    /\ []C8_Rows
    /\ [][inputs' = inputs /\ scenario_inputs' = scenario_inputs]_vars

C8_Witness ==
    /\ pc = "done"
    /\ Len(results) = 3
    /\ scenario_inputs[1] = scenario_inputs[3]
    /\ scenario_inputs[1] # scenario_inputs[2]
    /\ results[1].MOIC = results[3].MOIC
    /\ results[1].MOIC # results[2].MOIC
    /\ Len(tables["Downside Case"]) >= 2

\* the two-entry cash flow [-100, 110]
RoundTripFlows == <<R(-100), R(110)>>

\* C9: calculate_irr([-100, 110]) starts at rate 0.10, a root of the NPV:
\* every pass leaves the rate at 0.10, and the value returned after the 100
\* passes is within 1e-4 of 0.10.
C9_RoundTrip ==
    irr_cash_flows = RoundTripFlows =>
       /\ rate = Frac(1, 10)
       /\ Value(irr_cash_flows, rate) = Zero
       /\ irr_pc # "raised"
       /\ irr_pc = "returned" =>
             /\ irr_n = iterations
             /\ RLe(RSub(rate, Frac(1, 10)), Frac(1, 10000))
             /\ RLe(RSub(Frac(1, 10), rate), Frac(1, 10000))

C9_Witness ==
    /\ irr_cash_flows = RoundTripFlows
    /\ iterations = 100
    /\ irr_n = 100
    /\ irr_pc = "returned"
    /\ rate = Frac(1, 10)

====
